---- MODULE Spec2Model ----
(***************************************************************************)
(* The verifier argument mapper of pact-js-core                            *)
(* (src/src/verifier/argumentMapper/arguments.ts): one compile pass runs   *)
(* the nine descriptors of ffiFnMapping in the order of orderOfExecution   *)
(* against one session handle and records the native calls they issue.     *)
(*                                                                         *)
(* Strings that the code takes apart (custom headers, pact locations, the  *)
(* provider base URL) are sequences of one-character strings; strings the  *)
(* code only passes on or tests for truthiness are TLA+ strings.  An       *)
(* optional value is a sequence of length 0 (undefined) or 1 (supplied).   *)
(*                                                                         *)
(* The mock-service Server (src/unnamed/part_000, the compiled server.js)  *)
(* is modelled next to it: start(), stop() and delete(), the polls         *)
(* waitForServerUp and waitForServerDown, their timers and answers, and    *)
(* the child process they watch.  SpecPolling follows single calls to the  *)
(* end of their polls; SpecServer follows several calls, each poll for a   *)
(* few checks.                                                             *)
(***************************************************************************)
EXTENDS Integers, Sequences, FiniteSets, TLC

\* ------------------------------------------------------------------ bounds
MaxHeaders == 2      \* entries of customProviderHeaders
MaxHeaderLen == 3    \* characters of one custom header string
MaxSources == 2      \* entries of pactUrls
MaxSelectors == 2    \* entries of consumerVersionSelectors

\* ----------------------------------------------------- JavaScript values
None == <<>>
Some(v) == <<v>>

\* `x` is supplied and a non-empty string (JS truthiness of string | undefined).
TruthyStr(x) == Len(x) = 1 /\ x[1] # ""
\* `x` is supplied and true (JS truthiness of boolean | undefined).
TruthyBool(x) == Len(x) = 1 /\ x[1]
\* `x` is supplied and non-zero (JS truthiness of number | undefined).
TruthyNum(x) == Len(x) = 1 /\ x[1] # 0
\* `x` is supplied: arrays and objects are truthy even when empty.
TruthyObj(x) == Len(x) = 1

\* a || b || '' over string | undefined
OrStr(a, b) == IF TruthyStr(a) THEN a[1] ELSE IF TruthyStr(b) THEN b[1] ELSE ""
\* a || [] over array | undefined
OrList(a) == IF TruthyObj(a) THEN a[1] ELSE <<>>

\* --------------------------------------------------------------- strings
Alpha == {"a", "b", "c", "d", "e", "f", "g", "h", "i", "j", "k", "l", "m",
          "n", "o", "p", "q", "r", "s", "t", "u", "v", "w", "x", "y", "z"}
DigitValue == [c \in {"0", "1", "2", "3", "4", "5", "6", "7", "8", "9"} |->
                 CASE c = "0" -> 0 [] c = "1" -> 1 [] c = "2" -> 2 [] c = "3" -> 3
                   [] c = "4" -> 4 [] c = "5" -> 5 [] c = "6" -> 6 [] c = "7" -> 7
                   [] c = "8" -> 8 [] c = "9" -> 9]
Digit == DOMAIN DigitValue
SchemeChar == Alpha \cup Digit \cup {".", "+", "-"}

\* First index of character c in s, 0 when s has none.
IndexOf(s, c) ==
  IF \E i \in 1..Len(s) : s[i] = c
    THEN CHOOSE i \in 1..Len(s) : s[i] = c /\ \A k \in 1..(i - 1) : s[k] # c
    ELSE 0

\* Last index of character c in s, 0 when s has none.
LastIndexOf(s, c) ==
  IF \E i \in 1..Len(s) : s[i] = c
    THEN CHOOSE i \in 1..Len(s) : s[i] = c /\ \A k \in (i + 1)..Len(s) : s[k] # c
    ELSE 0

Tail_(s, i) == SubSeq(s, i, Len(s))

\* String.prototype.split(sep) for a one-character separator: the pieces
\* between ALL occurrences of sep (n occurrences give n + 1 pieces).
RECURSIVE split(_, _)
split(s, sep) ==
  LET i == IndexOf(s, sep) IN
  IF i = 0 THEN <<s>>
  ELSE <<SubSeq(s, 1, i - 1)>> \o split(Tail_(s, i + 1), sep)

\* All strings over alphabet A of length at most n.
RECURSIVE StringsUpTo(_, _)
StringsUpTo(A, n) ==
  IF n = 0 THEN {<<>>}
  ELSE LET shorter == StringsUpTo(A, n - 1) IN
       shorter \cup {Append(s, c) : s \in shorter, c \in A}

\* --------------------------------------------------- numbers and parseInt
\* A JavaScript number that may be NaN.
NaN == [nan |-> TRUE, n |-> 0]
Num(k) == [nan |-> FALSE, n |-> k]

RECURSIVE DigitsToNat(_)
DigitsToNat(s) ==
  IF s = <<>> THEN 0
  ELSE 10 * DigitsToNat(SubSeq(s, 1, Len(s) - 1)) + DigitValue[s[Len(s)]]

DigitOf(n) == CHOOSE c \in Digit : DigitValue[c] = n

RECURSIVE NatToDigits(_)
NatToDigits(n) ==
  IF n < 10 THEN <<DigitOf(n)>>
  ELSE Append(NatToDigits(n \div 10), DigitOf(n % 10))

\* parseInt(s, 10): the leading run of digits as a number, NaN when s
\* does not start with a digit (the empty string included).
parseInt(s) ==
  LET n == IF \E i \in 1..Len(s) : s[i] \notin Digit
             THEN (CHOOSE i \in 1..Len(s) :
                     s[i] \notin Digit /\ \A k \in 1..(i - 1) : s[k] \in Digit) - 1
             ELSE Len(s)
  IN IF n = 0 THEN NaN ELSE Num(DigitsToNat(SubSeq(s, 1, n)))

\* ------------------------------------------------------------ URL parsing
\* url.parse(file).protocol || '' of the legacy parser: the prefix matched by
\* /^[a-z0-9.+-]+:/i, colon included, or '' when the string has none.
urlParseProtocol(file) ==
  LET i == IndexOf(file, ":") IN
  IF i > 1 /\ \A k \in 1..(i - 1) : file[k] \in SchemeChar
    THEN SubSeq(file, 1, i)
    ELSE <<>>

StartsWithAt(s, i, w) ==
  /\ i + Len(w) - 1 <= Len(s)
  /\ \A k \in 1..Len(w) : s[i + k - 1] = w[k]

\* /https?:/.test(p): the pattern is not anchored, it matches anywhere in p.
testHttpPattern(p) ==
  \E i \in 1..Len(p) :
    \/ StartsWithAt(p, i, <<"h", "t", "t", "p", ":">>)
    \/ StartsWithAt(p, i, <<"h", "t", "t", "p", "s", ":">>)

SpecialSchemes == { <<"h", "t", "t", "p">>, <<"h", "t", "t", "p", "s">>,
                    <<"f", "t", "p">>, <<"w", "s">>, <<"w", "s", "s">> }
DefaultPort(scheme) ==
  CASE scheme = <<"h", "t", "t", "p">> -> 80
    [] scheme = <<"w", "s">> -> 80
    [] scheme = <<"h", "t", "t", "p", "s">> -> 443
    [] scheme = <<"w", "s", "s">> -> 443
    [] scheme = <<"f", "t", "p">> -> 21
    [] OTHER -> -1

InvalidURL == [ok |-> FALSE]

RECURSIVE SkipSlashes(_)
SkipSlashes(s) == IF s # <<>> /\ s[1] = "/" THEN SkipSlashes(Tail(s)) ELSE s

\* The authority and path of a URL whose scheme is `scheme` and whose text
\* after the authority slashes is r.
ParseAuthority(scheme, r, special) ==
  LET slash == IndexOf(r, "/")
      authority == IF slash = 0 THEN r ELSE SubSeq(r, 1, slash - 1)
      path == IF slash = 0 THEN (IF special THEN <<"/">> ELSE <<>>) ELSE Tail_(r, slash)
      colon == LastIndexOf(authority, ":")
      host == IF colon = 0 THEN authority ELSE SubSeq(authority, 1, colon - 1)
      portText == IF colon = 0 THEN <<>> ELSE Tail_(authority, colon + 1)
  IN IF special /\ host = <<>> THEN InvalidURL
     ELSE IF \E k \in 1..Len(portText) : portText[k] \notin Digit THEN InvalidURL
     ELSE IF portText # <<>> /\ DigitsToNat(portText) > 65535 THEN InvalidURL
     ELSE [ok |-> TRUE,
           protocol |-> Append(scheme, ":"),
           hostname |-> host,
           port |-> IF portText = <<>> \/ DigitsToNat(portText) = DefaultPort(scheme)
                      THEN <<>> ELSE NatToDigits(DigitsToNat(portText)),
           pathname |-> path]

\* new URL(input) of the WHATWG parser without a base, for inputs over
\* letters, digits and . + - : / (no credentials, query, fragment, IPv6 or
\* file: scheme).  [ok |-> FALSE] stands for the TypeError it throws.
NewURL(input) ==
  LET i == IndexOf(input, ":") IN
  IF i <= 1 \/ input[1] \notin Alpha
       \/ \E k \in 2..(i - 1) : input[k] \notin SchemeChar
    THEN InvalidURL
    ELSE LET scheme == SubSeq(input, 1, i - 1)
             rest == Tail_(input, i + 1)
         IN IF scheme \in SpecialSchemes
              THEN ParseAuthority(scheme, SkipSlashes(rest), TRUE)
            ELSE IF Len(rest) >= 2 /\ rest[1] = "/" /\ rest[2] = "/"
              THEN ParseAuthority(scheme, Tail_(rest, 3), FALSE)
            ELSE [ok |-> TRUE, protocol |-> Append(scheme, ":"),
                  hostname |-> <<>>, port |-> <<>>, pathname |-> rest]

\* --------------------------------------------------------- JSON.stringify
\* An object is its own enumerable properties in insertion order, each
\* [key, kind, str, bool] with kind "string", "boolean" or "undefined".
\* JSON.stringify writes {"key":value,...} and leaves out the properties
\* whose value is undefined.
JSONValue(p) ==
  CASE p.kind = "string" -> <<"\"", p.str, "\"">>
    [] p.kind = "boolean" -> <<IF p.bool THEN "true" ELSE "false">>

RECURSIVE JSONMembers(_, _)
JSONMembers(props, first) ==
  IF props = <<>> THEN <<>>
  ELSE IF Head(props).kind = "undefined" THEN JSONMembers(Tail(props), first)
  ELSE (IF first THEN <<>> ELSE <<",">>)
         \o <<"\"", Head(props).key, "\"", ":">> \o JSONValue(Head(props))
         \o JSONMembers(Tail(props), FALSE)

JSONstringify(o) == <<"{">> \o JSONMembers(o, TRUE) \o <<"}">>

\* Mutant: the whole array is serialized into one string.
objArrayToStringArray_whole(obj) ==
  IF obj = <<>> THEN << <<"[", "]">> >>
  ELSE << <<"[">> \o JSONstringify(obj[1]) \o <<"]">> >>

\* objArrayToStringArray: obj.map((o) => JSON.stringify(o))
objArrayToStringArray(obj) == [i \in 1..Len(obj) |-> JSONstringify(obj[i])]

\* ------------------------------------------------------------- filesystem
\* The files the pass can probe.  fs.lstatSync(file) returns the kind of the
\* entry at that path and throws for every other path.
Path_d == <<"d">>
Path_f == <<"f">>
Path_l == <<"l">>
Path_n == <<"n">>
FileSystem ==
  (Path_d :> "directory") @@ (Path_f :> "file") @@ (Path_l :> "symlink")
    @@ (Path_n :> "chardev")

lstatSync(file) ==
  IF file \in DOMAIN FileSystem
    THEN [threw |-> FALSE, kind |-> FileSystem[file]]
    ELSE [threw |-> TRUE, kind |-> "none"]

\* ---------------------------------------------------------------- outcomes
SUCCESS == "SUCCESS"
FAIL == "FAIL"
IGNORE == "IGNORE"
FnValidationStatus == {SUCCESS, FAIL, IGNORE}

DEFAULT_TIMEOUT == 30000

\* What one validateAndExecute leaves behind: whether it threw, the outcome
\* it returned (messages is <<>> when the returned object has no messages
\* property) and the native calls it issued on the handle, in order.
Returned(status, messages, issued) ==
  [threw |-> FALSE, status |-> status, messages |-> messages, calls |-> issued]
Thrown(issued) ==
  [threw |-> TRUE, status |-> "none", messages |-> <<>>, calls |-> issued]

\* ----------------------------------------- the descriptors of ffiFnMapping
\* The forEach over an array of header strings: acc is [messages, calls].
RECURSIVE HeaderItems_forEach(_, _)
HeaderItems_forEach(items, acc) ==
  IF items = <<>> THEN acc
  ELSE LET item == Head(items)
           parts == split(item, ":")
       IN HeaderItems_forEach(Tail(items),
            IF Len(parts) # 2
              THEN [acc EXCEPT !.messages =
                      Append(@, [text |-> "is not a valid custom header", item |-> item])]
              ELSE [acc EXCEPT !.calls =
                      Append(@, [fn |-> "pactffiVerifierAddCustomHeader",
                                 name |-> parts[1], value |-> parts[2]])])

\* The forEach over Object.entries of a header mapping.
HeaderEntries_forEach(entries) ==
  [i \in 1..Len(entries) |->
     [fn |-> "pactffiVerifierAddCustomHeader",
      name |-> entries[i][1], value |-> entries[i][2]]]

\* Mutant: the first malformed entry throws instead of being collected.
pactffiVerifierAddCustomHeader_throws(options, env) ==
  IF TruthyObj(options.customProviderHeaders)
    THEN LET h == options.customProviderHeaders[1]
             acc == IF h.isArray
                      THEN HeaderItems_forEach(h.items, [messages |-> <<>>, calls |-> <<>>])
                      ELSE [messages |-> <<>>, calls |-> HeaderEntries_forEach(h.items)]
         IN IF Len(acc.messages) > 0
              THEN Thrown(<<>>)
              ELSE Returned(SUCCESS, <<>>, acc.calls)
    ELSE Returned(IGNORE, <<>>, <<>>)

pactffiVerifierAddCustomHeader(options, env) ==
  IF TruthyObj(options.customProviderHeaders)
    THEN LET h == options.customProviderHeaders[1]
             acc == IF h.isArray
                      THEN HeaderItems_forEach(h.items, [messages |-> <<>>, calls |-> <<>>])
                      ELSE [messages |-> <<>>, calls |-> HeaderEntries_forEach(h.items)]
         IN IF Len(acc.messages) > 0
              THEN Returned(FAIL, <<>>, acc.calls)
              ELSE Returned(SUCCESS, <<>>, acc.calls)
    ELSE Returned(IGNORE, <<>>, <<>>)

\* The forEach over pactUrls: acc is [messages, calls].
RECURSIVE PactUrls_forEach(_, _, _, _)
PactUrls_forEach(files, options, env, acc) ==
  IF files = <<>> THEN acc
  ELSE LET file == Head(files) IN
       PactUrls_forEach(Tail(files), options, env,
         IF testHttpPattern(urlParseProtocol(file))
           THEN LET u == NewURL(file) IN
                IF ~u.ok
                  THEN [acc EXCEPT !.messages =
                          Append(@, [text |-> "is not a valid URL", item |-> file])]
                ELSE IF u.hostname # <<>>
                  THEN [acc EXCEPT !.calls =
                          Append(@, [fn |-> "pactffiVerifierUrlSource",
                                     url |-> file,
                                     username |-> OrStr(options.pactBrokerUsername,
                                                        env.PACT_BROKER_USERNAME),
                                     password |-> OrStr(options.pactBrokerPassword,
                                                        env.PACT_BROKER_PASSWORD),
                                     token |-> OrStr(options.pactBrokerToken,
                                                     env.PACT_BROKER_TOKEN)])]
                ELSE acc
           ELSE LET f == lstatSync(file) IN
                IF f.threw
                  THEN [acc EXCEPT !.messages =
                          Append(@, [text |-> "does not exist, or is not a file or directory",
                                     item |-> file])]
                ELSE IF f.kind = "directory"
                  THEN [acc EXCEPT !.calls =
                          Append(@, [fn |-> "pactffiVerifierAddDirectorySource",
                                     path |-> file])]
                ELSE IF f.kind = "file" \/ f.kind = "symlink"
                  THEN [acc EXCEPT !.calls =
                          Append(@, [fn |-> "pactffiVerifierAddFileSource",
                                     path |-> file])]
                ELSE acc)

pactffiVerifierAddDirectorySource(options, env) ==
  IF TruthyObj(options.pactUrls)
    THEN LET acc == PactUrls_forEach(options.pactUrls[1], options, env,
                                     [messages |-> <<>>, calls |-> <<>>])
         IN IF Len(acc.messages) > 0
              THEN Returned(FAIL, acc.messages, acc.calls)
              ELSE Returned(SUCCESS, <<>>, acc.calls)
    ELSE Returned(IGNORE, <<>>, <<>>)

pactffiVerifierBrokerSourceWithSelectors(opts, env) ==
  LET brokerUrl == IF TruthyStr(opts.pactBrokerUrl) THEN opts.pactBrokerUrl
                   ELSE env.PACT_BROKER_BASE_URL
  IN IF TruthyStr(brokerUrl) /\ TruthyStr(opts.provider)
       THEN Returned(SUCCESS, <<>>,
              << [fn |-> "pactffiVerifierBrokerSourceWithSelectors",
                  url |-> brokerUrl[1],
                  username |-> OrStr(opts.pactBrokerUsername, env.PACT_BROKER_USERNAME),
                  password |-> OrStr(opts.pactBrokerPassword, env.PACT_BROKER_PASSWORD),
                  token |-> OrStr(opts.pactBrokerToken, env.PACT_BROKER_TOKEN),
                  enablePending |-> TruthyBool(opts.enablePending),
                  includeWipPactsSince |-> OrStr(opts.includeWipPactsSince, None),
                  providerVersionTags |-> OrList(opts.providerVersionTags),
                  providerVersionBranch |-> OrStr(opts.providerVersionBranch,
                                                  opts.providerBranch),
                  consumerVersionSelectors |->
                    IF TruthyObj(opts.consumerVersionSelectors)
                      THEN objArrayToStringArray(opts.consumerVersionSelectors[1])
                      ELSE <<>>,
                  consumerVersionTags |-> OrList(opts.consumerVersionTags)] >>)
       ELSE Returned(IGNORE, <<>>, <<>>)

pactffiVerifierSetConsumerFilters(options, env) ==
  IF TruthyObj(options.consumerFilters) /\ Len(options.consumerFilters[1]) > 0
    THEN Returned(SUCCESS, <<>>,
           << [fn |-> "pactffiVerifierSetConsumerFilters",
               consumerFilters |-> options.consumerFilters[1]] >>)
    ELSE Returned(IGNORE, <<>>, <<>>)

pactffiVerifierSetFilterInfo(options, env) ==
  IF \/ TruthyStr(env.PACT_DESCRIPTION)
     \/ TruthyStr(env.PACT_PROVIDER_STATE)
     \/ TruthyStr(env.PACT_PROVIDER_NO_STATE)
    THEN Returned(SUCCESS, <<>>,
           << [fn |-> "pactffiVerifierSetFilterInfo",
               filterDescription |-> OrStr(env.PACT_DESCRIPTION, None),
               filterState |-> OrStr(env.PACT_PROVIDER_STATE, None),
               filterNoState |-> TruthyStr(env.PACT_PROVIDER_NO_STATE)] >>)
    ELSE Returned(IGNORE, <<>>, <<>>)

\* new URL(options.providerBaseUrl): a missing URL is the text "undefined",
\* which has no scheme.
pactffiVerifierSetProviderInfo(options, env) ==
  LET uri == IF options.providerBaseUrl = None THEN InvalidURL
             ELSE NewURL(options.providerBaseUrl[1])
  IN IF ~uri.ok THEN Thrown(<<>>)
     ELSE Returned(SUCCESS, <<>>,
            << [fn |-> "pactffiVerifierSetProviderInfo",
                name |-> OrStr(options.provider, None),
                scheme |-> split(uri.protocol, ":")[1],
                host |-> uri.hostname,
                port |-> parseInt(uri.port),
                path |-> uri.pathname] >>)

pactffiVerifierSetProviderState(options, env) ==
  IF TruthyStr(options.providerStatesSetupUrl)
    THEN Returned(SUCCESS, <<>>,
           << [fn |-> "pactffiVerifierSetProviderState",
               url |-> options.providerStatesSetupUrl[1],
               teardown |-> TRUE, body |-> TRUE] >>)
    ELSE Returned(IGNORE, <<>>, <<>>)

\* Mutant: the environment variable is not consulted.
pactffiVerifierSetPublishOptions_noEnv(options, env) ==
  IF TruthyBool(options.publishVerificationResult) /\ TruthyStr(options.providerVersion)
    THEN Returned(SUCCESS, <<>>,
           << [fn |-> "pactffiVerifierSetPublishOptions",
               providerVersion |-> options.providerVersion[1],
               buildUrl |-> OrStr(options.buildUrl, None),
               providerVersionTags |-> OrList(options.providerVersionTags),
               providerVersionBranch |-> OrStr(options.providerVersionBranch,
                                               options.providerBranch)] >>)
    ELSE Returned(IGNORE, <<>>, <<>>)

pactffiVerifierSetPublishOptions(options, env) ==
  IF /\ \/ TruthyBool(options.publishVerificationResult)
        \/ TruthyStr(env.PACT_BROKER_PUBLISH_VERIFICATION_RESULTS)
     /\ TruthyStr(options.providerVersion)
    THEN Returned(SUCCESS, <<>>,
           << [fn |-> "pactffiVerifierSetPublishOptions",
               providerVersion |-> options.providerVersion[1],
               buildUrl |-> OrStr(options.buildUrl, None),
               providerVersionTags |-> OrList(options.providerVersionTags),
               providerVersionBranch |-> OrStr(options.providerVersionBranch,
                                               options.providerBranch)] >>)
    ELSE Returned(IGNORE, <<>>, <<>>)

\* Mutant: the options are set whether or not any was configured.
pactffiVerifierSetVerificationOptions_always(opts, env) ==
  Returned(SUCCESS, <<>>,
    << [fn |-> "pactffiVerifierSetVerificationOptions",
        disableSslVerification |-> TruthyBool(opts.disableSslVerification),
        timeout |-> IF TruthyNum(opts.timeout) THEN opts.timeout[1]
                    ELSE DEFAULT_TIMEOUT] >>)

pactffiVerifierSetVerificationOptions(opts, env) ==
  IF TruthyBool(opts.disableSslVerification) \/ TruthyNum(opts.timeout)
    THEN Returned(SUCCESS, <<>>,
           << [fn |-> "pactffiVerifierSetVerificationOptions",
               disableSslVerification |-> TruthyBool(opts.disableSslVerification),
               timeout |-> IF TruthyNum(opts.timeout) THEN opts.timeout[1]
                           ELSE DEFAULT_TIMEOUT] >>)
    ELSE Returned(IGNORE, <<>>, <<>>)

\* Mutant: the custom-header and directory-source positions exchanged.
orderOfExecution_swapped ==
  [pactffiVerifierSetProviderInfo |-> 1,
   pactffiVerifierSetFilterInfo |-> 2,
   pactffiVerifierSetProviderState |-> 3,
   pactffiVerifierSetVerificationOptions |-> 4,
   pactffiVerifierSetPublishOptions |-> 5,
   pactffiVerifierSetConsumerFilters |-> 6,
   pactffiVerifierAddCustomHeader |-> 8,
   pactffiVerifierAddDirectorySource |-> 7,
   pactffiVerifierBrokerSourceWithSelectors |-> 9]

\* orderOfExecution: the position of each descriptor in a compile pass.
orderOfExecution ==
  [pactffiVerifierSetProviderInfo |-> 1,
   pactffiVerifierSetFilterInfo |-> 2,
   pactffiVerifierSetProviderState |-> 3,
   pactffiVerifierSetVerificationOptions |-> 4,
   pactffiVerifierSetPublishOptions |-> 5,
   pactffiVerifierSetConsumerFilters |-> 6,
   pactffiVerifierAddCustomHeader |-> 7,
   pactffiVerifierAddDirectorySource |-> 8,
   pactffiVerifierBrokerSourceWithSelectors |-> 9]

FunctionNames == DOMAIN orderOfExecution
NumFunctions == Cardinality(FunctionNames)

\* ------------------------------------------------------- the compile pass
\* The positions of orderOfExecution in ascending order, and the descriptor
\* at each: the pass walks the descriptors by position, not by the order in
\* which ffiFnMapping declares them.
Positions == {orderOfExecution[fn] : fn \in FunctionNames}
order(k) == CHOOSE v \in Positions : Cardinality({w \in Positions : w < v}) = k - 1
functionsToCall(v) == CHOOSE fn \in FunctionNames : orderOfExecution[fn] = v
executionOrder == [k \in 1..NumFunctions |-> functionsToCall(order(k))]

\* aggregate(outcomes): ok unless some outcome is FAIL; the messages of the
\* FAIL outcomes, concatenated in execution order.
RECURSIVE FailMessages(_)
FailMessages(outs) ==
  IF outs = <<>> THEN <<>>
  ELSE (IF Head(outs).status = FAIL THEN Head(outs).messages ELSE <<>>)
         \o FailMessages(Tail(outs))

aggregate(outs) ==
  [ok |-> \A i \in 1..Len(outs) : outs[i].status # FAIL,
   messages |-> FailMessages(outs)]

\* ------------------------------------------------------------------ inputs
SeqsUpTo(S, n) == UNION {[1..k -> S] : k \in 0..n}

Url_withPort == <<"h", "t", "t", "p", ":", "/", "/", "h", ":", "8", "0", "8", "0", "/", "p">>
Url_noPort == <<"h", "t", "t", "p", ":", "/", "/", "h", "/">>
Url_defaultPort == <<"h", "t", "t", "p", "s", ":", "/", "/", "h", ":", "4", "4", "3">>
Url_noScheme == <<"h">>
ProviderBaseUrls ==
  {None, Some(Url_withPort), Some(Url_noPort), Some(Url_defaultPort), Some(Url_noScheme)}

Loc_http == <<"h", "t", "t", "p", ":", "/", "/", "h", "/", "p">>
Loc_https == <<"h", "t", "t", "p", "s", ":", "/", "/", "h">>
Loc_httpNoHost == <<"h", "t", "t", "p", ":", "/", "/">>
Loc_httpNoSlash == <<"h", "t", "t", "p", ":", "h">>
Loc_xhttp == <<"x", "h", "t", "t", "p", ":", "/", "/", "h">>
Loc_xhttpOpaque == <<"x", "h", "t", "t", "p", ":", "p">>
Loc_ftp == <<"f", "t", "p", ":", "/", "/", "h">>
Path_m == <<"m">>
Locations ==
  {Loc_http, Loc_https, Loc_httpNoHost, Loc_httpNoSlash, Loc_xhttp, Loc_xhttpOpaque,
   Loc_ftp, Path_d, Path_f, Path_l, Path_n, Path_m}

HeaderStrings == StringsUpTo({"a", ":"}, MaxHeaderLen)
Header_good == <<"a", ":", "a">>
Header_bad == <<"a">>
Header_noName == <<":", "a">>
Header_colonValue == <<"a", ":", ":">>
HeaderSamples == {Header_good, Header_bad, Header_noName, Header_colonValue}
HeaderArray(items) == Some([isArray |-> TRUE, items |-> items])
HeaderObject(entries) == Some([isArray |-> FALSE, items |-> entries])
HeaderObjects ==
  {HeaderObject(<<>>), HeaderObject(<< <<"X-A", "1">> >>),
   HeaderObject(<< <<"X-A", "1">>, <<"X-B", "">> >>)}

Selector_tag == << [key |-> "tag", kind |-> "string", str |-> "prod", bool |-> FALSE],
                   [key |-> "latest", kind |-> "boolean", str |-> "", bool |-> TRUE] >>
Selector_branch == << [key |-> "branch", kind |-> "string", str |-> "main", bool |-> FALSE],
                      [key |-> "consumer", kind |-> "undefined", str |-> "", bool |-> FALSE] >>
Selectors == {Selector_tag, Selector_branch}

OptStr(v) == {None, Some(""), Some(v)}
OptBool == {None, Some(FALSE), Some(TRUE)}

BaseOptions ==
  [providerBaseUrl |-> Some(Url_withPort),
   provider |-> None,
   providerStatesSetupUrl |-> None,
   disableSslVerification |-> None,
   timeout |-> None,
   publishVerificationResult |-> None,
   providerVersion |-> None,
   buildUrl |-> None,
   providerVersionTags |-> None,
   providerVersionBranch |-> None,
   providerBranch |-> None,
   consumerFilters |-> None,
   customProviderHeaders |-> None,
   pactUrls |-> None,
   pactBrokerUrl |-> None,
   pactBrokerUsername |-> None,
   pactBrokerPassword |-> None,
   pactBrokerToken |-> None,
   enablePending |-> None,
   includeWipPactsSince |-> None,
   consumerVersionSelectors |-> None,
   consumerVersionTags |-> None]

BaseEnv ==
  [PACT_BROKER_BASE_URL |-> None,
   PACT_BROKER_USERNAME |-> None,
   PACT_BROKER_PASSWORD |-> None,
   PACT_BROKER_TOKEN |-> None,
   PACT_BROKER_PUBLISH_VERIFICATION_RESULTS |-> None,
   PACT_DESCRIPTION |-> None,
   PACT_PROVIDER_STATE |-> None,
   PACT_PROVIDER_NO_STATE |-> None]

Scenario(o, e) == [options |-> o, env |-> e]

\* Every provider base URL, with and without a provider name.
ProviderScenarios ==
  {Scenario([BaseOptions EXCEPT !.providerBaseUrl = u, !.provider = p], BaseEnv) :
     u \in ProviderBaseUrls, p \in OptStr("P")}

\* Every combination of the three filter variables.
FilterScenarios ==
  {Scenario(BaseOptions,
            [BaseEnv EXCEPT !.PACT_DESCRIPTION = d, !.PACT_PROVIDER_STATE = s,
                            !.PACT_PROVIDER_NO_STATE = n]) :
     d \in OptStr("desc"), s \in OptStr("state"), n \in OptStr("true")}

\* The state-setup URL and the verification options.
VerificationScenarios ==
  {Scenario([BaseOptions EXCEPT !.providerStatesSetupUrl = u,
                                !.disableSslVerification = d, !.timeout = t], BaseEnv) :
     u \in OptStr("http://setup"), d \in OptBool, t \in {None, Some(0), Some(5000)}}

\* The publish flag, its environment fallback, the version and its branch.
PublishScenarios ==
  {Scenario([BaseOptions EXCEPT !.publishVerificationResult = f, !.providerVersion = v,
                                !.providerVersionBranch = b, !.providerBranch = l,
                                !.buildUrl = u, !.providerVersionTags = t],
            [BaseEnv EXCEPT !.PACT_BROKER_PUBLISH_VERIFICATION_RESULTS = e]) :
     f \in OptBool, v \in OptStr("1.0"), b \in OptStr("br"), l \in {None, Some("legacy")},
     u \in {None, Some("http://ci")}, t \in {None, Some(<<"t1">>)}, e \in {None, Some("true")}}

\* Every one-entry array of header strings, every array of the sample
\* strings, and the mapping forms.
HeaderScenarios ==
  {Scenario([BaseOptions EXCEPT !.customProviderHeaders = h], BaseEnv) :
     h \in {HeaderArray(<<item>>) : item \in HeaderStrings}
             \cup {HeaderArray(items) : items \in SeqsUpTo(HeaderSamples, MaxHeaders)}
             \cup HeaderObjects}

\* Every list of pact locations.
SourceScenarios ==
  {Scenario([BaseOptions EXCEPT !.pactUrls = Some(l)], BaseEnv) :
     l \in SeqsUpTo(Locations, MaxSources)}

\* The broker URL and credentials, as options and as environment variables,
\* with a URL pact source that uses the same credentials.
CredentialScenarios ==
  {Scenario([BaseOptions EXCEPT !.provider = Some("P"), !.pactUrls = Some(<<Loc_http>>),
                                !.pactBrokerUrl = c[1], !.pactBrokerUsername = c[2],
                                !.pactBrokerPassword = c[3], !.pactBrokerToken = c[4]],
            [BaseEnv EXCEPT !.PACT_BROKER_BASE_URL = e[1], !.PACT_BROKER_USERNAME = e[2],
                            !.PACT_BROKER_PASSWORD = e[3], !.PACT_BROKER_TOKEN = e[4]]) :
     c \in OptStr("http://broker") \X OptStr("user") \X OptStr("pass") \X OptStr("tok"),
     e \in {None, Some("http://envbroker")} \X {None, Some("envuser")}
             \X {None, Some("envpass")} \X {None, Some("envtok")}}

\* The remaining arguments of the broker source.
BrokerScenarios ==
  {Scenario([BaseOptions EXCEPT !.provider = p, !.pactBrokerUrl = u,
                                !.enablePending = a[1], !.includeWipPactsSince = a[2],
                                !.providerVersionTags = a[3], !.consumerVersionTags = a[3],
                                !.providerVersionBranch = a[4], !.providerBranch = a[5],
                                !.consumerVersionSelectors = s],
            BaseEnv) :
     p \in {None, Some("P")}, u \in {None, Some("http://broker")},
     a \in OptBool \X {None, Some("2020-01-01")} \X {None, Some(<<"t1">>)}
             \X {None, Some("br")} \X {None, Some("legacy")},
     s \in {None} \cup {Some(l) : l \in SeqsUpTo(Selectors, MaxSelectors)}}

\* Descriptors switched on and off together: which of the nine apply, with
\* several header entries and several pact locations.
CombinedScenarios ==
  {Scenario([BaseOptions EXCEPT !.providerBaseUrl = t[1], !.providerStatesSetupUrl = t[2],
                                !.timeout = t[3], !.publishVerificationResult = t[4],
                                !.providerVersion = Some("1.0"), !.provider = Some("P"),
                                !.consumerFilters = t[5], !.pactBrokerUrl = t[6],
                                !.customProviderHeaders = h, !.pactUrls = l],
            [BaseEnv EXCEPT !.PACT_DESCRIPTION = t[7]]) :
     t \in {Some(Url_withPort), Some(Url_noScheme)} \X {None, Some("http://setup")}
             \X {None, Some(5000)} \X {None, Some(TRUE)}
             \X {None, Some(<<"c1">>)} \X {None, Some("http://broker")}
             \X {None, Some("desc")},
     h \in {None, HeaderObject(<< <<"X-A", "1">> >>)}
             \cup {HeaderArray(items) :
                     items \in SeqsUpTo({Header_good, Header_bad}, MaxHeaders)},
     l \in {None} \cup {Some(x) : x \in SeqsUpTo({Loc_http, Path_m}, MaxSources)}}

Scenarios ==
  ProviderScenarios \cup FilterScenarios \cup VerificationScenarios
    \cup PublishScenarios \cup HeaderScenarios \cup SourceScenarios
    \cup CredentialScenarios \cup BrokerScenarios \cup CombinedScenarios

\* =================================================================== server
\* server.js: a Server spawns the mock-service binary, polls it until it
\* answers (start) or stops answering (stop), and emits an event when the
\* poll of a call has succeeded.
CHECKTIME == 500
RETRY_AMOUNT == 60
PROCESS_TIMEOUT == 30000

MaxCalls == 2     \* calls of start(), stop() and delete() on one Server
MaxChecks == 2    \* health checks of one wait that SpecServer follows

\* A port: the one the Server was configured with, or the one a child process
\* chose for itself and printed.
ConfiguredPort == [auto |-> FALSE, pid |-> 0]
PortOf(pid) == [auto |-> TRUE, pid |-> pid]

\* q's deferred.resolve() and deferred.reject(): only a pending deferred moves.
resolve(deferred) == IF deferred = "pending" THEN "resolved" ELSE deferred
reject(deferred) == IF deferred = "pending" THEN "rejected" ELSE deferred

\* call(options): the GET answers 200 when a child process listens on the
\* port of the options at the time the answer is made.
call(options, procs) ==
  /\ options.port # None
  /\ \E p \in 1..Len(procs) : procs[p].state = "listening" /\ procs[p].port = options.port

\* The closure of one waitForServerUp or waitForServerDown call: amount and
\* deferred are its variables; phase is what it has pending ("calling": a GET
\* in flight, "scheduled": a setTimeout(check, CHECKTIME), "idle": nothing).
\* successes and failures count the answers of its GETs.
NewWait ==
  [amount |-> 0, deferred |-> "pending", phase |-> "idle", successes |-> 0, failures |-> 0]

\* retry() of waitForServerUp: the timer is set whether or not the deferred
\* was rejected.
waitForServerUp_retry(w) ==
  [w EXCEPT !.deferred = IF w.amount >= RETRY_AMOUNT THEN reject(@) ELSE @,
            !.phase = "scheduled"]

\* check() of waitForServerUp.
waitForServerUp_check(w, options) ==
  LET counted == [w EXCEPT !.amount = @ + 1] IN
  IF options.port # None
    THEN [counted EXCEPT !.phase = "calling"]
    ELSE waitForServerUp_retry(counted)

\* call(options).then(resolve, retry) of waitForServerUp, once the GET is answered.
waitForServerUp_then(w, ok) ==
  IF ok
    THEN [w EXCEPT !.deferred = resolve(@), !.phase = "idle", !.successes = @ + 1]
    ELSE waitForServerUp_retry([w EXCEPT !.failures = @ + 1])

waitForServerUp(options) == waitForServerUp_check(NewWait, options)

\* Mutant: the check after an answered GET is set without looking at amount.
waitForServerDown_then_unbounded(w, ok) ==
  IF ok
    THEN [w EXCEPT !.successes = @ + 1, !.phase = "scheduled"]
    ELSE [w EXCEPT !.failures = @ + 1, !.deferred = resolve(@), !.phase = "idle"]

\* call(options).then(...) of waitForServerDown, once the GET is answered.
waitForServerDown_then(w, ok) ==
  IF ok
    THEN IF w.amount >= RETRY_AMOUNT
           THEN [w EXCEPT !.successes = @ + 1, !.deferred = reject(@), !.phase = "idle"]
           ELSE [w EXCEPT !.successes = @ + 1, !.phase = "scheduled"]
    ELSE [w EXCEPT !.failures = @ + 1, !.deferred = resolve(@), !.phase = "idle"]

\* check() of waitForServerDown.
waitForServerDown_check(w, options) ==
  LET counted == [w EXCEPT !.amount = @ + 1] IN
  IF options.port # None
    THEN [counted EXCEPT !.phase = "calling"]
    ELSE [counted EXCEPT !.deferred = resolve(@), !.phase = "idle"]

waitForServerDown(options) == waitForServerDown_check(NewWait, options)

\* The time a wait has spent in its timers: one CHECKTIME before every check
\* but the first.
Waited(w) == (w.amount - 1) * CHECKTIME

\* Timers run in the order they are due: a check timer that would be due at
\* or after the .timeout(PROCESS_TIMEOUT) timer of a pending promise runs
\* after it.
CheckTimerDue(w, promise) ==
  promise = "pending" => Waited(w) + CHECKTIME < PROCESS_TIMEOUT

\* cp.spawn(file, args, opts), lines 61-85: the child gets --port when the
\* port is known and picks one otherwise; it has no IPC channel, so connected
\* is false; `close` is the once('close') listener, `catching` the catchPort
\* listeners on its output.
spawn(options) ==
  [state |-> "booting", port |-> options.port, connected |-> FALSE,
   close |-> TRUE, catching |-> options.port = None, signalled |-> FALSE]

\* The events of a stop() whose promise resolved: 'stop', then 'delete' when
\* the call was delete().
StopEvents(j, kind) ==
  << [type |-> "stop", by |-> j] >>
    \o (IF kind = "delete" THEN << [type |-> "delete", by |-> j] >> ELSE <<>>)


\* ------------------------------------------------------------------- state
VARIABLES
  options,   \* the verification options of this pass (never written)
  env,       \* process.env (never written)
  pc,        \* "run" while descriptors remain, then "done"; "aborted" after a throw
  step,      \* the position in the order of the next descriptor to invoke
  calls,     \* the native calls issued on the session handle, in order
  outcomes,  \* the outcome of each descriptor invoked so far, in order
  result     \* the aggregated outcome, once pc = "done"

\* The mock-service Server (server.js) is a separate object with state of its
\* own; a compile pass never touches it.
VARIABLES
  _options,   \* Server._options: the port, configured or caught from the output
  _instance,  \* Server._instance: the spawned child process, if any
  _running,   \* Server._running
  processes,  \* every child process spawned so far, by pid
  up,         \* the start() calls: their waitForServerUp and returned promise
  down,       \* the stop() calls: their waitForServerDown and returned promise
  events,     \* the events emitted by the Server, in order
  crashed     \* an uncaught exception has ended the Node process

compileVars == <<options, env, pc, step, calls, outcomes, result>>
serverVars == <<_options, _instance, _running, processes, up, down, events, crashed>>
vars == <<compileVars, serverVars>>

\* new Server(port, ...): lines 6-23.
Server(port) ==
  /\ _options = [port |-> port]
  /\ _instance = None
  /\ _running = FALSE
  /\ processes = <<>>
  /\ up = <<>>
  /\ down = <<>>
  /\ events = <<>>
  /\ crashed = FALSE

Init ==
  /\ \E s \in Scenarios : options = s.options /\ env = s.env
  /\ pc = "run"
  /\ step = 1
  /\ calls = <<>>
  /\ outcomes = <<>>
  /\ result = [ok |-> TRUE, messages |-> <<>>]
  /\ Server(None)

\* The descriptor the pass invokes next.
Current == executionOrder[step]

\* One iteration of the pass: descriptor fn has validated and executed
\* against the handle and left r behind.  An exception it threw is not caught
\* by the pass and ends it.
Invoke(fn, r) ==
  /\ calls' = calls \o r.calls
  /\ IF r.threw
       THEN /\ pc' = "aborted"
            /\ UNCHANGED <<step, outcomes>>
       ELSE /\ outcomes' = Append(outcomes,
                  [fn |-> fn, status |-> r.status, messages |-> r.messages])
            /\ step' = step + 1
            /\ pc' = pc
  /\ UNCHANGED <<options, env, result>>
  /\ UNCHANGED serverVars

Running == pc = "run" /\ step <= NumFunctions

SetProviderInfo ==
  /\ Running /\ Current = "pactffiVerifierSetProviderInfo"
  /\ Invoke("pactffiVerifierSetProviderInfo", pactffiVerifierSetProviderInfo(options, env))
SetFilterInfo ==
  /\ Running /\ Current = "pactffiVerifierSetFilterInfo"
  /\ Invoke("pactffiVerifierSetFilterInfo", pactffiVerifierSetFilterInfo(options, env))
SetProviderState ==
  /\ Running /\ Current = "pactffiVerifierSetProviderState"
  /\ Invoke("pactffiVerifierSetProviderState", pactffiVerifierSetProviderState(options, env))
SetVerificationOptions ==
  /\ Running /\ Current = "pactffiVerifierSetVerificationOptions"
  /\ Invoke("pactffiVerifierSetVerificationOptions", pactffiVerifierSetVerificationOptions(options, env))
SetPublishOptions ==
  /\ Running /\ Current = "pactffiVerifierSetPublishOptions"
  /\ Invoke("pactffiVerifierSetPublishOptions", pactffiVerifierSetPublishOptions(options, env))
SetConsumerFilters ==
  /\ Running /\ Current = "pactffiVerifierSetConsumerFilters"
  /\ Invoke("pactffiVerifierSetConsumerFilters", pactffiVerifierSetConsumerFilters(options, env))
AddCustomHeader ==
  /\ Running /\ Current = "pactffiVerifierAddCustomHeader"
  /\ Invoke("pactffiVerifierAddCustomHeader", pactffiVerifierAddCustomHeader(options, env))
AddDirectorySource ==
  /\ Running /\ Current = "pactffiVerifierAddDirectorySource"
  /\ Invoke("pactffiVerifierAddDirectorySource", pactffiVerifierAddDirectorySource(options, env))
BrokerSourceWithSelectors ==
  /\ Running /\ Current = "pactffiVerifierBrokerSourceWithSelectors"
  /\ Invoke("pactffiVerifierBrokerSourceWithSelectors", pactffiVerifierBrokerSourceWithSelectors(options, env))

\* After the last descriptor the outcomes are aggregated.
Aggregate ==
  /\ pc = "run"
  /\ step = NumFunctions + 1
  /\ result' = aggregate(outcomes)
  /\ pc' = "done"
  /\ UNCHANGED <<options, env, step, calls, outcomes>>
  /\ UNCHANGED serverVars

Next ==
  \/ SetProviderInfo
  \/ SetFilterInfo
  \/ SetProviderState
  \/ SetVerificationOptions
  \/ SetPublishOptions
  \/ SetConsumerFilters
  \/ AddCustomHeader
  \/ AddDirectorySource
  \/ BrokerSourceWithSelectors
  \/ Aggregate

Spec == Init /\ [][Next]_vars


\* ------------------------------------------------- the calls on a Server
\* A promise callback is queued: the deferred of a stop() settled inside the
\* call and its tap has not run yet.  It runs before any timer or I/O callback.
PendingFlush(j) == down[j].promise = "pending" /\ down[j].wait.deferred # "pending"
NoPendingFlush == \A j \in 1..Len(down) : ~PendingFlush(j)

\* .timeout(PROCESS_TIMEOUT, ...).tap(...) of start(), lines 86-91, when the
\* wait of call i has become w: the promise follows the deferred, and the tap
\* runs if it resolved.
StartPromise(i, w) ==
  LET settles == up[i].promise = "pending" /\ w.deferred # "pending" IN
  /\ up' = [up EXCEPT ![i].wait = w,
                      ![i].promise = IF settles THEN w.deferred ELSE @]
  /\ IF settles /\ w.deferred = "resolved"
       THEN /\ _running' = TRUE
            /\ events' = Append(events, [type |-> "start", by |-> i])
       ELSE UNCHANGED <<_running, events>>

\* .timeout(PROCESS_TIMEOUT, ...).tap(...) of stop() and the tap of delete(),
\* lines 107-117, when the wait of call j has become w.
StopPromise(j, w) ==
  LET settles == down[j].promise = "pending" /\ w.deferred # "pending" IN
  /\ down' = [down EXCEPT ![j].wait = w,
                          ![j].promise = IF settles THEN w.deferred ELSE @]
  /\ IF settles /\ w.deferred = "resolved"
       THEN /\ _running' = FALSE
            /\ events' = events \o StopEvents(j, down[j].kind)
       ELSE UNCHANGED <<_running, events>>

\* Server.prototype.start, lines 25-92.
Start ==
  /\ ~crashed
  /\ IF _instance # None /\ processes[_instance[1]].connected
       THEN UNCHANGED serverVars
       ELSE /\ processes' = Append(processes, spawn(_options))
            /\ _instance' = Some(Len(processes) + 1)
            /\ up' = Append(up, [wait |-> waitForServerUp(_options),
                                 promise |-> "pending",
                                 pid |-> Len(processes) + 1])
            /\ UNCHANGED <<_options, _running, down, events, crashed>>
  /\ UNCHANGED compileVars

\* Server.prototype.stop, lines 93-113, called by `kind` ("stop", "delete" or
\* the "close" listener) when the child processes are procs.  process.kill
\* throws when the process group has no member left, which it may once the
\* child has closed; the exception leaves stop() before _instance is cleared.
\* A call from the program (api) returns before the promise callbacks run; a
\* listener is followed by them at once.
stop(kind, procs, api) ==
  LET pid == IF _instance = None THEN -1 ELSE _instance[1] IN
  \E throws \in BOOLEAN :
    /\ throws => (_instance # None /\ procs[pid].state = "closed")
    /\ IF throws
         THEN /\ processes' = [procs EXCEPT ![pid].close = FALSE]
              /\ crashed' = TRUE
              /\ UNCHANGED <<_options, _instance, _running, up, down, events>>
         ELSE LET w == waitForServerDown(_options)
                  flush == ~api /\ w.deferred # "pending"
              IN /\ processes' = IF _instance = None THEN procs
                                 ELSE [procs EXCEPT ![pid].close = FALSE,
                                                    ![pid].signalled = TRUE]
                 /\ _instance' = None
                 /\ down' = Append(down, [wait |-> w,
                                          promise |-> IF flush THEN w.deferred ELSE "pending",
                                          kind |-> kind, pid |-> pid])
                 /\ IF flush
                      THEN /\ _running' = FALSE
                           /\ events' = events \o StopEvents(Len(down) + 1, kind)
                      ELSE UNCHANGED <<_running, events>>
                 /\ UNCHANGED <<_options, up, crashed>>

\* The program calls stop().
Stop ==
  /\ ~crashed
  /\ stop("stop", processes, TRUE)
  /\ UNCHANGED compileVars

\* Server.prototype.delete, lines 114-118.
Delete ==
  /\ ~crashed
  /\ stop("delete", processes, TRUE)
  /\ UNCHANGED compileVars

\* The queued tap of a stop() whose wait resolved inside the call.
Flush(j) ==
  /\ ~crashed
  /\ PendingFlush(j)
  /\ StopPromise(j, down[j].wait)
  /\ UNCHANGED <<_options, _instance, processes, up, crashed>>
  /\ UNCHANGED compileVars

\* The GET of a waitForServerUp is answered.
UpResponse(i) ==
  /\ ~crashed /\ NoPendingFlush
  /\ up[i].wait.phase = "calling"
  /\ StartPromise(i, waitForServerUp_then(up[i].wait, call(_options, processes)))
  /\ UNCHANGED <<_options, _instance, processes, down, crashed>>
  /\ UNCHANGED compileVars

\* The setTimeout(check, CHECKTIME) of a waitForServerUp runs.
UpTimer(i) ==
  /\ ~crashed /\ NoPendingFlush
  /\ up[i].wait.phase = "scheduled"
  /\ CheckTimerDue(up[i].wait, up[i].promise)
  /\ StartPromise(i, waitForServerUp_check(up[i].wait, _options))
  /\ UNCHANGED <<_options, _instance, processes, down, crashed>>
  /\ UNCHANGED compileVars

\* The .timeout(PROCESS_TIMEOUT) of a start() runs: the promise is rejected,
\* the wait goes on.
UpTimeout(i) ==
  /\ ~crashed /\ NoPendingFlush
  /\ up[i].promise = "pending"
  /\ up' = [up EXCEPT ![i].promise = "rejected"]
  /\ UNCHANGED <<_options, _instance, _running, processes, down, events, crashed>>
  /\ UNCHANGED compileVars

\* The GET of a waitForServerDown is answered.
DownResponse(j) ==
  /\ ~crashed /\ NoPendingFlush
  /\ down[j].wait.phase = "calling"
  /\ StopPromise(j, waitForServerDown_then(down[j].wait, call(_options, processes)))
  /\ UNCHANGED <<_options, _instance, processes, up, crashed>>
  /\ UNCHANGED compileVars

\* The setTimeout(check, CHECKTIME) of a waitForServerDown runs.
DownTimer(j) ==
  /\ ~crashed /\ NoPendingFlush
  /\ down[j].wait.phase = "scheduled"
  /\ CheckTimerDue(down[j].wait, down[j].promise)
  /\ StopPromise(j, waitForServerDown_check(down[j].wait, _options))
  /\ UNCHANGED <<_options, _instance, processes, up, crashed>>
  /\ UNCHANGED compileVars

\* The .timeout(PROCESS_TIMEOUT) of a stop() runs.
DownTimeout(j) ==
  /\ ~crashed /\ NoPendingFlush
  /\ down[j].promise = "pending"
  /\ down' = [down EXCEPT ![j].promise = "rejected"]
  /\ UNCHANGED <<_options, _instance, _running, processes, up, events, crashed>>
  /\ UNCHANGED compileVars

\* A child process binds its port: the one it was given, if no other child
\* holds it, or one of its own.
Listen(p) ==
  /\ ~crashed
  /\ processes[p].state = "booting"
  /\ LET port == IF processes[p].port = None THEN Some(PortOf(p)) ELSE processes[p].port IN
     /\ \A q \in 1..Len(processes) :
          ~(processes[q].state = "listening" /\ processes[q].port = port)
     /\ processes' = [processes EXCEPT ![p].state = "listening", ![p].port = port]
  /\ UNCHANGED <<_options, _instance, _running, up, down, events, crashed>>
  /\ UNCHANGED compileVars

\* A child process ends, of itself or of the signal stop() sent.
Exit(p) ==
  /\ ~crashed
  /\ processes[p].state \in {"booting", "listening"}
  /\ processes' = [processes EXCEPT ![p].state = "exited"]
  /\ UNCHANGED <<_options, _instance, _running, up, down, events, crashed>>
  /\ UNCHANGED compileVars

\* catchPort, lines 67-74: the output line with the port of a child that
\* chose its own arrives.  The listeners are looked up on this._instance,
\* which stop() may have cleared.
CatchPort(p) ==
  /\ ~crashed /\ NoPendingFlush
  /\ processes[p].catching
  /\ processes[p].port # None
  /\ processes[p].state # "closed"
  /\ _options' = [_options EXCEPT !.port = processes[p].port]
  /\ processes' = [processes EXCEPT ![p].catching = FALSE]
  /\ crashed' = (_instance = None)
  /\ UNCHANGED <<_instance, _running, up, down, events>>
  /\ UNCHANGED compileVars

\* The 'close' event of an ended child, lines 80-85: its listener, if stop()
\* has not removed it, calls stop().
Close(p) ==
  /\ ~crashed /\ NoPendingFlush
  /\ processes[p].state = "exited"
  /\ LET procs == [processes EXCEPT ![p].state = "closed", ![p].close = FALSE,
                                    ![p].catching = FALSE]
     IN IF processes[p].close
          THEN stop("close", procs, FALSE)
          ELSE /\ processes' = procs
               /\ UNCHANGED <<_options, _instance, _running, up, down, events, crashed>>
  /\ UNCHANGED compileVars

\* The calls of stop() and delete() the program has made.
ApiStops == Len(SelectSeq(down, LAMBDA d : d.kind # "close"))

\* A Server with or without a configured port; no compile pass is running.
ServerInit ==
  /\ \E port \in {None, Some(ConfiguredPort)} : Server(port)
  /\ options = BaseOptions
  /\ env = BaseEnv
  /\ pc = "idle"
  /\ step = 1
  /\ calls = <<>>
  /\ outcomes = <<>>
  /\ result = [ok |-> TRUE, messages |-> <<>>]

\* The calls of start(), stop() and delete() the program has made.
ApiCalls == Len(up) + ApiStops

\* ---- the lifecycle: up to MaxCalls calls of start(), stop() and delete(),
\* every wait followed for MaxChecks checks.
ServerStart == ApiCalls < MaxCalls /\ Start
ServerStop == ApiCalls < MaxCalls /\ Stop
ServerDelete == ApiCalls < MaxCalls /\ Delete
ServerUpTimer == \E i \in 1..Len(up) : up[i].wait.amount < MaxChecks /\ UpTimer(i)
ServerDownTimer == \E j \in 1..Len(down) : down[j].wait.amount < MaxChecks /\ DownTimer(j)

ServerNext ==
  \/ ServerStart
  \/ ServerStop
  \/ ServerDelete
  \/ \E j \in 1..Len(down) : Flush(j)
  \/ \E i \in 1..Len(up) : UpResponse(i)
  \/ ServerUpTimer
  \/ \E i \in 1..Len(up) : UpTimeout(i)
  \/ \E j \in 1..Len(down) : DownResponse(j)
  \/ ServerDownTimer
  \/ \E j \in 1..Len(down) : DownTimeout(j)
  \/ \E p \in 1..Len(processes) : Listen(p)
  \/ \E p \in 1..Len(processes) : Exit(p)
  \/ \E p \in 1..Len(processes) : CatchPort(p)
  \/ \E p \in 1..Len(processes) : Close(p)

SpecServer == ServerInit /\ [][ServerNext]_vars

\* The Server is Stopped (no call was made on it) or Running (its one start()
\* has resolved within MaxChecks checks and no stop() was called).
Stopped == up = <<>> /\ down = <<>>
Started ==
  /\ Len(up) = 1 /\ ApiStops = 0
  /\ up[1].promise = "resolved" /\ up[1].wait.amount <= MaxChecks

\* ---- the polls: start() on a Stopped Server, stop() or delete() on a
\* Stopped or Running one, every wait followed until its counter has passed
\* RETRY_AMOUNT.
PollingStart == Stopped /\ Start
PollingStop == (Stopped \/ Started) /\ Stop
PollingDelete == (Stopped \/ Started) /\ Delete
PollingUpTimer == \E i \in 1..Len(up) : up[i].wait.amount <= RETRY_AMOUNT /\ UpTimer(i)
PollingDownTimer == \E j \in 1..Len(down) : down[j].wait.amount <= RETRY_AMOUNT /\ DownTimer(j)

PollingNext ==
  \/ PollingStart
  \/ PollingStop
  \/ PollingDelete
  \/ \E j \in 1..Len(down) : Flush(j)
  \/ \E i \in 1..Len(up) : UpResponse(i)
  \/ PollingUpTimer
  \/ \E i \in 1..Len(up) : UpTimeout(i)
  \/ \E j \in 1..Len(down) : DownResponse(j)
  \/ PollingDownTimer
  \/ \E j \in 1..Len(down) : DownTimeout(j)
  \/ \E p \in 1..Len(processes) : Listen(p)
  \/ \E p \in 1..Len(processes) : Exit(p)
  \/ \E p \in 1..Len(processes) : CatchPort(p)
  \/ \E p \in 1..Len(processes) : Close(p)

SpecPolling == ServerInit /\ [][PollingNext]_vars



\* ------------------------------------------------- vocabulary of the claims
\* The fixed total order of the descriptors, as the specification lists it.
FixedTotalOrder ==
  << "pactffiVerifierSetProviderInfo", "pactffiVerifierSetFilterInfo",
     "pactffiVerifierSetProviderState", "pactffiVerifierSetVerificationOptions",
     "pactffiVerifierSetPublishOptions", "pactffiVerifierSetConsumerFilters",
     "pactffiVerifierAddCustomHeader", "pactffiVerifierAddDirectorySource",
     "pactffiVerifierBrokerSourceWithSelectors" >>

\* The descriptor a native call belongs to: the URL and file source calls
\* are issued by the directory-source descriptor.
DescriptorOf(fn) ==
  IF fn \in {"pactffiVerifierUrlSource", "pactffiVerifierAddFileSource"}
    THEN "pactffiVerifierAddDirectorySource"
    ELSE fn

RankOf(fn) ==
  CHOOSE k \in 1..Len(FixedTotalOrder) : FixedTotalOrder[k] = DescriptorOf(fn)

SingleCallDescriptors ==
  {FixedTotalOrder[k] : k \in 1..Len(FixedTotalOrder)}
    \ {"pactffiVerifierAddCustomHeader", "pactffiVerifierAddDirectorySource"}

CallsBy(d) == SelectSeq(calls, LAMBDA c : DescriptorOf(c.fn) = d)
Ran(d) == \E i \in 1..Len(outcomes) : outcomes[i].fn = d
OutcomeOf(d) == outcomes[CHOOSE i \in 1..Len(outcomes) : outcomes[i].fn = d]
OutcomesOf(d) == SelectSeq(outcomes, LAMBDA o : o.fn = d)

HeadersAreArray ==
  options.customProviderHeaders # None /\ options.customProviderHeaders[1].isArray
HeaderItems == options.customProviderHeaders[1].items
ColonCount(item) == Cardinality({i \in 1..Len(item) : item[i] = ":"})
ProviderUrlParsable ==
  options.providerBaseUrl # None /\ NewURL(options.providerBaseUrl[1]).ok

\* C1 (as stated): the native calls of a pass form a subsequence of the fixed
\* total order, so no descriptor's call appears twice.
C1_CallsAreSubsequence ==
  \A i, j \in 1..Len(calls) : i < j => RankOf(calls[i].fn) < RankOf(calls[j].fn)

\* C1 (amended): calls of different descriptors are never reordered (the
\* positions of the issuing descriptors never decrease along the call
\* sequence), each of the seven single-call descriptors issues at most one
\* call, and the custom-header and directory-source descriptors issue at most
\* one call per configured entry.
C1_CallsFollowOrder ==
  /\ \A i, j \in 1..Len(calls) : i < j => RankOf(calls[i].fn) <= RankOf(calls[j].fn)
  /\ \A d \in SingleCallDescriptors : Len(CallsBy(d)) <= 1
  /\ Len(CallsBy("pactffiVerifierAddCustomHeader")) <=
       (IF options.customProviderHeaders = None THEN 0 ELSE Len(HeaderItems))
  /\ Len(CallsBy("pactffiVerifierAddDirectorySource")) <=
       (IF options.pactUrls = None THEN 0 ELSE Len(options.pactUrls[1]))

\* C1 witness: a finished pass with several header calls, several source
\* calls and calls of descriptors before and after them.
C1_Witness ==
  /\ pc = "done"
  /\ Len(CallsBy("pactffiVerifierAddCustomHeader")) >= 2
  /\ Len(CallsBy("pactffiVerifierAddDirectorySource")) >= 2
  /\ Len(CallsBy("pactffiVerifierSetProviderInfo")) = 1
  /\ Len(CallsBy("pactffiVerifierSetPublishOptions")) = 1
  /\ Len(CallsBy("pactffiVerifierBrokerSourceWithSelectors")) = 1

\* C2 (as stated): whatever the configuration, a pass that has ended has
\* invoked each of the nine descriptors exactly once, with one outcome each.
C2_EveryDescriptorOnce ==
  pc \in {"done", "aborted"} =>
    \A d \in FunctionNames :
      Len(OutcomesOf(d)) = 1 /\ OutcomeOf(d).status \in FnValidationStatus

\* C2 (amended): when the provider base URL parses, the pass invokes the
\* descriptors one after the other in the fixed order whatever the earlier
\* outcomes were, and ends with exactly one outcome in {SUCCESS, FAIL, IGNORE}
\* for each of the nine; when it is missing or unparsable the provider-info
\* descriptor throws, the pass ends there and no descriptor has an outcome.
C2_OnceUnlessUrlThrows ==
  /\ \A d \in FunctionNames : Len(OutcomesOf(d)) <= 1
  /\ \A i \in 1..Len(outcomes) :
       outcomes[i].fn = FixedTotalOrder[i] /\ outcomes[i].status \in FnValidationStatus
  /\ ProviderUrlParsable =>
       /\ pc # "aborted"
       /\ Len(outcomes) = step - 1
       /\ pc = "done" => \A d \in FunctionNames : Len(OutcomesOf(d)) = 1
  /\ ~ProviderUrlParsable => pc # "done" /\ outcomes = <<>> /\ calls = <<>>

\* C2 witness: a finished pass in which a descriptor returned FAIL and the
\* descriptors after it were still invoked.
C2_Witness ==
  /\ pc = "done"
  /\ Len(outcomes) = 9
  /\ \E i \in 1..8 : outcomes[i].status = FAIL
  /\ outcomes[9].status = SUCCESS

\* C3: in array form every entry without exactly one colon issues no call and
\* adds one message naming it to the outcome, every other entry issues one
\* call, and the outcome is FAIL exactly when some entry was malformed.
C3_PerEntryMessages ==
  (HeadersAreArray /\ Ran("pactffiVerifierAddCustomHeader")) =>
    LET malformed == SelectSeq(HeaderItems, LAMBDA item : ColonCount(item) # 1)
        o == OutcomeOf("pactffiVerifierAddCustomHeader")
    IN /\ Len(CallsBy("pactffiVerifierAddCustomHeader")) =
            Len(HeaderItems) - Len(malformed)
       /\ Len(o.messages) = Len(malformed)
       /\ \A k \in 1..Len(o.messages) : o.messages[k].item = malformed[k]
       /\ o.status = FAIL <=> Len(malformed) > 0

\* C4: an entry is accepted exactly when it has a colon with text on both
\* sides of the FIRST colon, and is then passed with the text before the first
\* colon as name and everything after it as value.
C4_SplitOnFirstColon ==
  (HeadersAreArray /\ Ran("pactffiVerifierAddCustomHeader")) =>
    LET accepted == SelectSeq(HeaderItems, LAMBDA item :
                      /\ IndexOf(item, ":") > 1
                      /\ IndexOf(item, ":") < Len(item))
        issued == CallsBy("pactffiVerifierAddCustomHeader")
    IN /\ Len(issued) = Len(accepted)
       /\ \A k \in 1..Len(issued) :
            /\ issued[k].name = SubSeq(accepted[k], 1, IndexOf(accepted[k], ":") - 1)
            /\ issued[k].value = Tail_(accepted[k], IndexOf(accepted[k], ":") + 1)

SourceOfCall(c) == IF c.fn = "pactffiVerifierUrlSource" THEN c.url ELSE c.path
Count(seq, x) == Cardinality({i \in 1..Len(seq) : seq[i] = x})

\* C5: every configured location either issues exactly one source call or
\* adds exactly one message containing it, never neither and never both; so
\* the outcome is SUCCESS exactly when every location issued a call.
C5_CallOrMessage ==
  (options.pactUrls # None /\ Ran("pactffiVerifierAddDirectorySource")) =>
    LET locs == options.pactUrls[1]
        o == OutcomeOf("pactffiVerifierAddDirectorySource")
        issued == CallsBy("pactffiVerifierAddDirectorySource")
        sources == [k \in 1..Len(issued) |-> SourceOfCall(issued[k])]
        named == [k \in 1..Len(o.messages) |-> o.messages[k].item]
    IN /\ \A i \in 1..Len(locs) :
            /\ Count(sources, locs[i]) + Count(named, locs[i]) = Count(locs, locs[i])
            /\ Count(sources, locs[i]) = 0 \/ Count(named, locs[i]) = 0
       /\ o.status = SUCCESS <=> Len(issued) = Len(locs)

\* The scheme of a location as the claim reads it: the text before its first
\* colon.
SchemeOf(loc) ==
  IF IndexOf(loc, ":") > 0 THEN SubSeq(loc, 1, IndexOf(loc, ":") - 1) ELSE <<>>
IsHttpUrl(loc) ==
  /\ SchemeOf(loc) \in {<<"h", "t", "t", "p">>, <<"h", "t", "t", "p", "s">>}
  /\ NewURL(loc).ok
  /\ NewURL(loc).hostname # <<>>
KindOf(loc) == IF loc \in DOMAIN FileSystem THEN FileSystem[loc] ELSE "none"

\* C6: the URL source calls are exactly the locations with scheme http or
\* https and a host; every other location goes by what the filesystem holds
\* at that path: a directory call for a directory, a file call for a regular
\* file or a symbolic link.
C6_Classification ==
  (options.pactUrls # None /\ Ran("pactffiVerifierAddDirectorySource")) =>
    LET locs == options.pactUrls[1]
        issued == CallsBy("pactffiVerifierAddDirectorySource")
        Sources(fn) == LET cs == SelectSeq(issued, LAMBDA c : c.fn = fn)
                       IN [k \in 1..Len(cs) |-> SourceOfCall(cs[k])]
    IN /\ Sources("pactffiVerifierUrlSource") = SelectSeq(locs, IsHttpUrl)
       /\ Sources("pactffiVerifierAddDirectorySource") =
            SelectSeq(locs, LAMBDA l : ~IsHttpUrl(l) /\ KindOf(l) = "directory")
       /\ Sources("pactffiVerifierAddFileSource") =
            SelectSeq(locs, LAMBDA l : ~IsHttpUrl(l) /\ KindOf(l) \in {"file", "symlink"})

\* C7: an option that is supplied, even as '' or false, decides: the broker
\* URL, username, password and token passed to the engine are the supplied
\* options, and the supplied broker URL and publish flag alone decide whether
\* the broker source and the publish options apply.
C7_ExplicitOptionWins ==
  /\ \A k \in 1..Len(calls) :
       calls[k].fn \in {"pactffiVerifierUrlSource",
                        "pactffiVerifierBrokerSourceWithSelectors"} =>
         /\ options.pactBrokerUsername # None =>
              calls[k].username = options.pactBrokerUsername[1]
         /\ options.pactBrokerPassword # None =>
              calls[k].password = options.pactBrokerPassword[1]
         /\ options.pactBrokerToken # None =>
              calls[k].token = options.pactBrokerToken[1]
  /\ (options.pactBrokerUrl # None /\ Ran("pactffiVerifierBrokerSourceWithSelectors")) =>
       /\ OutcomeOf("pactffiVerifierBrokerSourceWithSelectors").status = SUCCESS
            <=> (TruthyStr(options.pactBrokerUrl) /\ TruthyStr(options.provider))
       /\ \A k \in 1..Len(calls) :
            calls[k].fn = "pactffiVerifierBrokerSourceWithSelectors" =>
              calls[k].url = options.pactBrokerUrl[1]
  /\ (options.publishVerificationResult # None /\ Ran("pactffiVerifierSetPublishOptions")) =>
       (OutcomeOf("pactffiVerifierSetPublishOptions").status = SUCCESS
          <=> (options.publishVerificationResult[1] /\ TruthyStr(options.providerVersion)))

\* Nothing but the provider base URL is configured: every other option is
\* absent or falsy ('', false, 0), the list options are absent, and no
\* variable of the environment has a non-empty value.
NoApplicableFields ==
  /\ \A f \in {"provider", "providerStatesSetupUrl", "providerVersion", "buildUrl",
               "providerVersionBranch", "providerBranch", "pactBrokerUrl",
               "pactBrokerUsername", "pactBrokerPassword", "pactBrokerToken",
               "includeWipPactsSince"} :
       options[f] = None \/ options[f] = Some("")
  /\ \A f \in {"disableSslVerification", "publishVerificationResult", "enablePending"} :
       options[f] = None \/ options[f] = Some(FALSE)
  /\ options.timeout = None \/ options.timeout = Some(0)
  /\ \A f \in {"providerVersionTags", "consumerFilters", "customProviderHeaders",
               "pactUrls", "consumerVersionSelectors", "consumerVersionTags"} :
       options[f] = None
  /\ \A v \in DOMAIN env : env[v] = None \/ env[v] = Some("")

\* C8 (as stated): with no applicable fields every descriptor yields IGNORE,
\* no native call is issued and the aggregate is ok with no messages.
C8_AllIgnored ==
  (pc = "done" /\ NoApplicableFields) =>
    /\ \A i \in 1..Len(outcomes) : outcomes[i].status = IGNORE
    /\ calls = <<>>
    /\ result.ok /\ result.messages = <<>>

\* C8 (amended): with a parsable provider base URL and nothing else
\* configured, the provider-info descriptor yields SUCCESS and issues the only
\* native call of the pass, the other eight descriptors yield IGNORE, and the
\* aggregate is ok with no messages.
C8_OnlyProviderInfo ==
  NoApplicableFields =>
    /\ \A i \in 1..Len(outcomes) :
         outcomes[i].status =
           (IF outcomes[i].fn = "pactffiVerifierSetProviderInfo" THEN SUCCESS ELSE IGNORE)
    /\ \A k \in 1..Len(calls) : calls[k].fn = "pactffiVerifierSetProviderInfo"
    /\ Len(calls) <= 1
    /\ pc = "done" =>
         /\ Len(outcomes) = 9 /\ Len(calls) = 1
         /\ result.ok /\ result.messages = <<>>

\* C8 witness: a finished pass of a configuration with nothing but the
\* provider base URL.
C8_Witness == pc = "done" /\ NoApplicableFields /\ Len(calls) = 1

\* C9: an empty list is not present (the descriptor of an empty
\* consumerFilters, header array or pactUrls returns IGNORE), a SUCCESS
\* outcome means the descriptor issued at least one call and an IGNORE outcome
\* means it issued none.
C9_EmptyListIgnored ==
  /\ \A i \in 1..Len(outcomes) :
       /\ outcomes[i].status = SUCCESS => Len(CallsBy(outcomes[i].fn)) >= 1
       /\ outcomes[i].status = IGNORE => Len(CallsBy(outcomes[i].fn)) = 0
  /\ (options.consumerFilters = Some(<<>>) /\ Ran("pactffiVerifierSetConsumerFilters")) =>
       OutcomeOf("pactffiVerifierSetConsumerFilters").status = IGNORE
  /\ (HeadersAreArray /\ HeaderItems = <<>> /\ Ran("pactffiVerifierAddCustomHeader")) =>
       OutcomeOf("pactffiVerifierAddCustomHeader").status = IGNORE
  /\ (options.pactUrls = Some(<<>>) /\ Ran("pactffiVerifierAddDirectorySource")) =>
       OutcomeOf("pactffiVerifierAddDirectorySource").status = IGNORE

\* C10: a FAIL outcome of the custom-header or directory-source descriptor
\* carries one message for each item that issued no call, so an aggregate
\* that is not ok has a non-empty message list.
C10_FailCarriesMessages ==
  /\ (HeadersAreArray /\ Ran("pactffiVerifierAddCustomHeader")) =>
       LET o == OutcomeOf("pactffiVerifierAddCustomHeader") IN
       o.status = FAIL =>
         Len(o.messages) = Len(HeaderItems) - Len(CallsBy("pactffiVerifierAddCustomHeader"))
  /\ (options.pactUrls # None /\ Ran("pactffiVerifierAddDirectorySource")) =>
       LET o == OutcomeOf("pactffiVerifierAddDirectorySource") IN
       o.status = FAIL =>
         Len(o.messages) =
           Len(options.pactUrls[1]) - Len(CallsBy("pactffiVerifierAddDirectorySource"))
  /\ (pc = "done" /\ ~result.ok) => result.messages # <<>>

\* A string option or variable counts as present (set) when it is supplied
\* and not empty; a flag counts as set when it is supplied as true.
Present(x) == x # None /\ x # Some("")
FlagSet(x) == x = Some(TRUE)

\* C11: the publish-options descriptor returns SUCCESS and issues exactly one
\* set-publish-options call if and only if (the publish flag is set or
\* PACT_BROKER_PUBLISH_VERIFICATION_RESULTS is set) and a provider version is
\* present; otherwise it returns IGNORE and issues no call.  The branch of
\* the call is providerVersionBranch if present, else providerBranch if
\* present, else the empty string.
C11_PublishOptions ==
  Ran("pactffiVerifierSetPublishOptions") =>
    LET o == OutcomeOf("pactffiVerifierSetPublishOptions")
        cs == CallsBy("pactffiVerifierSetPublishOptions")
        applicable ==
          /\ \/ FlagSet(options.publishVerificationResult)
             \/ Present(env.PACT_BROKER_PUBLISH_VERIFICATION_RESULTS)
          /\ Present(options.providerVersion)
    IN IF applicable
         THEN /\ o.status = SUCCESS
              /\ Len(cs) = 1
              /\ cs[1].fn = "pactffiVerifierSetPublishOptions"
              /\ cs[1].providerVersion = options.providerVersion[1]
              /\ cs[1].providerVersionBranch =
                   (IF Present(options.providerVersionBranch)
                      THEN options.providerVersionBranch[1]
                    ELSE IF Present(options.providerBranch)
                      THEN options.providerBranch[1]
                    ELSE "")
         ELSE o.status = IGNORE /\ cs = <<>>

\* C11 witness: the flag is not set, the environment variable is, and the
\* descriptor has passed the legacy branch on.
C11_Witness ==
  /\ Ran("pactffiVerifierSetPublishOptions")
  /\ ~FlagSet(options.publishVerificationResult)
  /\ Present(env.PACT_BROKER_PUBLISH_VERIFICATION_RESULTS)
  /\ ~Present(options.providerVersionBranch)
  /\ Len(CallsBy("pactffiVerifierSetPublishOptions")) = 1
  /\ CallsBy("pactffiVerifierSetPublishOptions")[1].providerVersionBranch = "legacy"

\* The property a serialized selector opens with: {"key": ...
FirstKeyOf(token) == token[3]

\* C12: the broker-source descriptor returns SUCCESS and issues exactly one
\* broker-source-with-selectors call if and only if a broker URL (option or
\* PACT_BROKER_BASE_URL) and a provider name are both present; otherwise it
\* returns IGNORE and issues no call.  The selectors of the call are as many
\* as the configured ones and in their order, each a string of its own (none
\* when none is configured); absent tags, branch, pending and WIP-since are
\* passed as the empty list, the empty string and false.
C12_BrokerSource ==
  Ran("pactffiVerifierBrokerSourceWithSelectors") =>
    LET o == OutcomeOf("pactffiVerifierBrokerSourceWithSelectors")
        cs == CallsBy("pactffiVerifierBrokerSourceWithSelectors")
        applicable ==
          /\ Present(options.pactBrokerUrl) \/ Present(env.PACT_BROKER_BASE_URL)
          /\ Present(options.provider)
        configured == IF options.consumerVersionSelectors = None THEN <<>>
                      ELSE options.consumerVersionSelectors[1]
    IN IF applicable
         THEN /\ o.status = SUCCESS
              /\ Len(cs) = 1
              /\ cs[1].fn = "pactffiVerifierBrokerSourceWithSelectors"
              /\ Len(cs[1].consumerVersionSelectors) = Len(configured)
              /\ \A i \in 1..Len(configured) :
                   LET token == cs[1].consumerVersionSelectors[i] IN
                   /\ Head(token) = "{" /\ token[Len(token)] = "}"
                   /\ FirstKeyOf(token) = configured[i][1].key
              /\ options.providerVersionTags = None => cs[1].providerVersionTags = <<>>
              /\ options.consumerVersionTags = None => cs[1].consumerVersionTags = <<>>
              /\ (options.providerVersionBranch = None /\ options.providerBranch = None)
                   => cs[1].providerVersionBranch = ""
              /\ options.enablePending = None => cs[1].enablePending = FALSE
              /\ options.includeWipPactsSince = None => cs[1].includeWipPactsSince = ""
         ELSE o.status = IGNORE /\ cs = <<>>

\* C12 witness: the broker source was added with two different selectors and
\* with no tags, branch, pending flag or WIP date configured.
C12_Witness ==
  /\ Ran("pactffiVerifierBrokerSourceWithSelectors")
  /\ Len(CallsBy("pactffiVerifierBrokerSourceWithSelectors")) = 1
  /\ options.consumerVersionSelectors = Some(<<Selector_branch, Selector_tag>>)
  /\ options.providerVersionTags = None /\ options.enablePending = None
  /\ options.providerVersionBranch = None /\ options.providerBranch = None
  /\ options.includeWipPactsSince = None

\* C13: for every parsable provider base URL, one with no explicit port
\* included, the provider-info descriptor issues exactly one
\* set-provider-info call whose port is an integer and whose scheme (without
\* the colon), host and path are those of the URL.
C13_PortIsInteger ==
  (ProviderUrlParsable /\ Ran("pactffiVerifierSetProviderInfo")) =>
    LET cs == CallsBy("pactffiVerifierSetProviderInfo")
        uri == NewURL(options.providerBaseUrl[1])
    IN /\ Len(cs) = 1
       /\ ~cs[1].port.nan
       /\ Append(cs[1].scheme, ":") = uri.protocol
       /\ cs[1].host = uri.hostname
       /\ cs[1].path = uri.pathname

\* C14: waitForServerUp makes at most RETRY_AMOUNT health checks; once its
\* counter has reached RETRY_AMOUNT the wait is rejected, and a rejected wait
\* has no further check scheduled or in flight, so the polling ends.
C14_StartupPollingBounded ==
  \A i \in 1..Len(up) :
    LET w == up[i].wait IN
    /\ w.amount <= RETRY_AMOUNT
    /\ w.deferred = "rejected" => w.phase = "idle"

\* C15: waitForServerDown makes at most RETRY_AMOUNT health checks and has
\* nothing scheduled or in flight once it has settled; it is resolved at once
\* when no port is known (one check, no GET), it is resolved by its first
\* failed health check, and it is rejected exactly when RETRY_AMOUNT health
\* checks in a row have succeeded.  It is unsettled only while a check is
\* scheduled or in flight.
C15_TeardownPollingBounded ==
  \A j \in 1..Len(down) :
    LET w == down[j].wait IN
    /\ w.amount <= RETRY_AMOUNT
    /\ w.deferred # "pending" <=> w.phase = "idle"
    /\ _options.port = None => (w.deferred = "resolved" /\ w.amount = 1)
    /\ w.deferred = "resolved" <=>
         \/ w.failures = 1
         \/ w.phase = "idle" /\ w.amount = 1 /\ w.successes = 0 /\ w.failures = 0
    /\ w.failures <= 1
    /\ w.failures = 1 => w.successes = w.amount - 1
    /\ w.deferred = "rejected" <=> (w.successes = RETRY_AMOUNT /\ w.failures = 0)

\* C15 witness: a stop() whose wait was rejected by its RETRY_AMOUNT-th
\* successful health check, and whose promise the timeout has not rejected
\* before.
C15_Witness ==
  \E j \in 1..Len(down) :
    /\ down[j].wait.deferred = "rejected"
    /\ down[j].wait.amount = RETRY_AMOUNT
    /\ down[j].promise = "rejected"
    /\ _running

\* The 'start' events emitted for the start() call i.
StartEventsOf(i) == SelectSeq(events, LAMBDA e : e.type = "start" /\ e.by = i)

\* The events of one type among the first n emitted.
EventsBefore(n, type) == Cardinality({m \in 1..n : events[m].type = type})

\* The child processes that have not ended.
Live == {p \in 1..Len(processes) : processes[p].state \in {"booting", "listening"}}

\* C16: the promise of every start() settles: it is resolved only after a
\* health check of its wait has succeeded, and exactly one 'start' event was
\* then emitted for it; a promise that is not resolved has no 'start' event;
\* and no promise is left pending when the program can run no further (once
\* an uncaught exception has ended it, no timer or callback runs).
C16_StartSettles ==
  \A i \in 1..Len(up) :
    /\ up[i].promise = "resolved" =>
         (up[i].wait.successes >= 1 /\ Len(StartEventsOf(i)) = 1)
    /\ up[i].promise # "resolved" => Len(StartEventsOf(i)) = 0
    /\ crashed => up[i].promise # "pending"

\* C17: in the emitted events 'start' and 'stop' alternate, beginning with
\* 'start' (every 'stop' has an unmatched 'start' before it), and a 'delete'
\* comes right after the 'stop' of the same call.
C17_EventsAlternate ==
  \A k \in 1..Len(events) :
    /\ events[k].type = "start" =>
         EventsBefore(k - 1, "start") = EventsBefore(k - 1, "stop")
    /\ events[k].type = "stop" =>
         EventsBefore(k - 1, "start") = EventsBefore(k - 1, "stop") + 1
    /\ events[k].type = "delete" =>
         (k > 1 /\ events[k - 1].type = "stop" /\ events[k - 1].by = events[k].by)

\* C18: _running is true only while the Server holds a spawned process.
C18_RunningOnlyWithInstance == _running => _instance # None

\* C19: a Server has at most one live child process at a time.
C19_OneLiveProcess == Cardinality(Live) <= 1

====
